---- MODULE Spec2Model ----
(***************************************************************************)
(* debug.c - the debug, warning and error reporting facility.              *)
(*                                                                         *)
(* The process calls msg, dbg, warn, warnp, err, errp, usage_err and       *)
(* usage_errp.  Each action below is one whole call.  A call is a          *)
(* straight-line function of its arguments, of the globals debuglevel,     *)
(* program and version_string, of errno, and of the behaviour of stderr.   *)
(*                                                                         *)
(* stderr's behaviour during a call is an input of the call (env):         *)
(*   failAt  the ordinal of the vfprintf of the call that fails and        *)
(*           returns a negative value (0: none fails);                     *)
(*   k, v    the write of the call (by position) that leaves errno set to  *)
(*           v (k = 0: no write touches errno).  No library function sets  *)
(*           errno to zero, so v is never 0.                               *)
(* out is the sequence of writes the call issued on stderr, each with the  *)
(* function that issued it, the library call, the format, its string and   *)
(* integer argument and the value the library call returned.               *)
(***************************************************************************)
EXTENDS Integers, Sequences, FiniteSets, TLC

VARIABLES debuglevel, program, version_string, errno,
          status, call, env, out, exitstatus

vars == <<debuglevel, program, version_string, errno,
          status, call, env, out, exitstatus>>

globals == <<debuglevel, program, version_string>>

(* ------------------------------ bounds -------------------------------- *)

\* debug levels and verbosity range over -1..MaxLevel+1 and 0..MaxLevel
MaxLevel == 1

(* ------------------------------ values -------------------------------- *)

NULL == "<NULL>"
NULL_NAME == "((NULL name))"
NULL_FMT == "((NULL fmt))"
FORCED_EXIT == 255

\* errno at startup, and what a write that touches errno leaves (EIO)
Errnos == {0, 2, 5}
WriteErrnos == {5}
Names == {NULL, "parse"}
Fmts == {NULL, "", "unexpected token"}
Programs == {NULL, "prime"}
VersionStrings == {"1.0"}
ExitCodes == {-1, 0, 1, 99, 254, 255, 256, 1000}
Levels == -1 .. (MaxLevel + 1)

strerror(e) ==
    CASE e = 0 -> "Success"
      [] e = 2 -> "No such file or directory"
      [] e = 5 -> "Input/output error"
      [] OTHER -> "Unknown error"

(* ------------------------- the stderr stream -------------------------- *)

\* a call's state: the writes it issued so far, errno, saved_errno, the
\* number of vfprintf calls so far, ret, and whether and how it exited
Entry(e0) ==
    [out |-> <<>>, errno |-> e0, saved_errno |-> 0, nvf |-> 0, ret |-> 0,
     exited |-> FALSE, code |-> -1]

W(fn, via, f, s, d, ret) ==
    [fn |-> fn, via |-> via, f |-> f, s |-> s, d |-> d, ret |-> ret]

\* the errno a write at position n leaves, given the errno before it
touch(e, n, cur) == IF e.k = n THEN e.v ELSE cur

\* the write w, issued in state st
put(st, e, w) ==
    [st EXCEPT !.out = Append(@, w),
               !.errno = touch(e, Len(st.out) + 1, @)]

\* vfprintf returns the number of characters written (0 for an empty
\* format), or a negative value when the write fails
vfprintf_ret(st, e, fmt) == IF e.failAt = st.nvf + 1 THEN -1 ELSE Len(fmt)

errno_line_live(st, e, fn) ==
    put(st, e, W(fn, "fprintf", "errno[%d]: %s\n", strerror(st.errno), st.errno, 1))

\* fprintf(stderr, "errno[%d]: %s\n", saved_errno, strerror(saved_errno))
errno_line(st, e, fn) ==
    put(st, e, W(fn, "fprintf", "errno[%d]: %s\n", strerror(st.saved_errno), st.saved_errno, 1))

exit_returns(st, code) == st

\* exit(exitcode): the process terminates; the status the parent sees is
\* the low eight bits of the code
exit(st, code) == [st EXCEPT !.exited = TRUE, !.code = code % 256]

(* --------------------------- the statements --------------------------- *)

\* fprintf(stderr, f, ...) with string argument s and integer argument d
FPRINTF(fn, f, s, d) == [op |-> "fprintf", fn |-> fn, f |-> f, s |-> s, d |-> d]
\* ret = vfprintf(stderr, fmt, ap), d the integer among the format args
VFPRINTF(fn, fmt, d) == [op |-> "vfprintf", fn |-> fn, f |-> fmt, s |-> "", d |-> d]
\* if (ret <= 0) fprintf(stderr, diag, __func__, ret)
CHECK_RET(fn, diag) == [op |-> "check_ret", fn |-> fn, f |-> diag, s |-> fn, d |-> 0]
\* fputc('\n', stderr)
FPUTC(fn) == [op |-> "fputc", fn |-> fn, f |-> "\n", s |-> "", d |-> 0]
\* saved_errno = errno
SAVE_ERRNO(fn) == [op |-> "save_errno", fn |-> fn, f |-> "", s |-> "", d |-> 0]
\* fprintf(stderr, "errno[%d]: %s\n", saved_errno, strerror(saved_errno))
ERRNO_LINE(fn) == [op |-> "errno_line", fn |-> fn, f |-> "", s |-> "", d |-> 0]
\* if (errno != 0) fprintf(stderr, "errno[%d]: %s\n", saved_errno, ...)
IF_ERRNO_ERRNO_LINE(fn) == [op |-> "if_errno", fn |-> fn, f |-> "", s |-> "", d |-> 0]
\* exit(exitcode)
EXIT(fn, exitcode) == [op |-> "exit", fn |-> fn, f |-> "", s |-> "", d |-> exitcode]

\* one statement, executed in state st
step(st, e, i) ==
    CASE i.op = "fprintf" ->
           put(st, e, W(i.fn, "fprintf", i.f, i.s, i.d, 1))
      [] i.op = "vfprintf" ->
           [put(st, e, W(i.fn, "vfprintf", i.f, "", i.d, vfprintf_ret(st, e, i.f)))
              EXCEPT !.nvf = @ + 1, !.ret = vfprintf_ret(st, e, i.f)]
      [] i.op = "check_ret" ->
           IF st.ret <= 0 THEN put(st, e, W(i.fn, "fprintf", i.f, i.s, st.ret, 1)) ELSE st
      [] i.op = "fputc" ->
           put(st, e, W(i.fn, "fputc", "\n", "", 0, 1))
      [] i.op = "save_errno" ->
           [st EXCEPT !.saved_errno = st.errno]
      [] i.op = "errno_line" ->
           errno_line(st, e, i.fn)
      [] i.op = "if_errno" ->
           IF st.errno # 0 THEN errno_line(st, e, i.fn) ELSE st
      [] i.op = "exit" ->
           exit(st, i.d)

\* the statements code[n], code[n+1], ... in order, from state st; nothing
\* is executed once the process has exited
RECURSIVE exec(_, _, _, _)
exec(st, e, code, n) ==
    IF n > Len(code) \/ st.exited
    THEN st
    ELSE CHOOSE r \in {exec(x, e, code, m) : x \in {step(st, e, code[n])}, m \in {n + 1}} : TRUE

DIAG == "[%s vfprintf returned error: %d]"
USAGE_DIAG == "%s: vfprintf returned error: %d"

(* ------------------------------- warn --------------------------------- *)

name_or_placeholder(name) == IF name = NULL THEN NULL_NAME ELSE name

fmt_or_placeholder(fmt) == IF fmt = NULL THEN NULL_FMT ELSE fmt

\* the firewall of warn and warnp (fn)
warn_firewall(fn, name, fmt) ==
       (IF name = NULL
        THEN <<FPRINTF(fn, "Warning: %s called with NULL name\n", fn, 0)>>
        ELSE <<>>)
    \o (IF fmt = NULL
        THEN <<FPRINTF(fn, "Warning: %s called with NULL fmt\n", fn, 0)>>
        ELSE <<>>)

\* d is the integer among the optional format args (0 when there is none)
warn(name, fmt, d) ==
       warn_firewall("warn", name, fmt)
    \o <<FPRINTF("warn", "Warning: %s: ", name_or_placeholder(name), 0),
         VFPRINTF("warn", fmt_or_placeholder(fmt), d),
         CHECK_RET("warn", DIAG),
         FPUTC("warn")>>

warnp(name, fmt) ==
       <<SAVE_ERRNO("warnp")>>
    \o warn_firewall("warnp", name, fmt)
    \o <<FPRINTF("warnp", "Warning: %s: ", name_or_placeholder(name), 0),
         VFPRINTF("warnp", fmt_or_placeholder(fmt), 0),
         CHECK_RET("warnp", DIAG),
         FPUTC("warnp"),
         ERRNO_LINE("warnp")>>

(* ----------------------------- msg, dbg ------------------------------- *)

msg_unchecked(fmt) ==
    <<VFPRINTF("msg", fmt_or_placeholder(fmt), 0), CHECK_RET("msg", DIAG), FPUTC("msg")>>

msg(fmt) ==
       (IF fmt = NULL THEN warn("msg", "NULL fmt given to debug", 0) ELSE <<>>)
    \o <<VFPRINTF("msg", fmt_or_placeholder(fmt), 0),
         CHECK_RET("msg", DIAG),
         FPUTC("msg")>>

dbg_gate_lt(level, verbosity) == level < verbosity

\* level <= debuglevel
dbg_gate(level, verbosity) == level <= verbosity

dbg(verbosity, level, fmt) ==
       (IF fmt = NULL THEN warn("dbg", "NULL fmt given to debug", 0) ELSE <<>>)
    \o (IF dbg_gate(level, verbosity)
        THEN <<VFPRINTF("dbg", fmt_or_placeholder(fmt), 0),
               CHECK_RET("dbg", DIAG),
               FPUTC("dbg")>>
        ELSE <<>>)

(* ----------------------------- err, errp ------------------------------ *)

exitcode_negative_unchecked(exitcode) == FALSE

exitcode_too_big(exitcode) == exitcode >= 256

exitcode_negative(exitcode) == exitcode < 0

\* exitcode after   if (exitcode >= 256) { ... exitcode = FORCED_EXIT; ... }
after_too_big(exitcode) == IF exitcode_too_big(exitcode) THEN FORCED_EXIT ELSE exitcode

\* exitcode after the firewall of err and errp
fatal_exitcode(exitcode) ==
    IF exitcode_negative(after_too_big(exitcode)) THEN FORCED_EXIT ELSE after_too_big(exitcode)

\* the firewall of err and errp (fn): exit code, name, fmt
fatal_firewall(fn, exitcode, name, fmt) ==
       (IF exitcode_too_big(exitcode)
        THEN warn(fn, "called with exitcode >= 256: %d", exitcode)
             \o warn(fn, "forcing exit code: %d", FORCED_EXIT)
        ELSE <<>>)
    \o (IF exitcode_negative(after_too_big(exitcode))
        THEN warn(fn, "called with exitcode < 0: %d", after_too_big(exitcode))
             \o warn(fn, "forcing exit code: %d", FORCED_EXIT)
        ELSE <<>>)
    \o (IF name = NULL THEN warn(fn, "called with NULL name", 0) ELSE <<>>)
    \o (IF fmt = NULL THEN warn(fn, "called with NULL fmt", 0) ELSE <<>>)

err(exitcode, name, fmt) ==
       fatal_firewall("err", exitcode, name, fmt)
    \o <<FPRINTF("err", "FATAL: %s: ", name_or_placeholder(name), 0),
         VFPRINTF("err", fmt_or_placeholder(fmt), 0),
         CHECK_RET("err", DIAG),
         FPUTC("err"),
         EXIT("err", fatal_exitcode(exitcode))>>

errp(exitcode, name, fmt) ==
       <<SAVE_ERRNO("errp")>>
    \o fatal_firewall("errp", exitcode, name, fmt)
    \o <<FPRINTF("errp", "FATAL: %s: ", name_or_placeholder(name), 0),
         VFPRINTF("errp", fmt_or_placeholder(fmt), 0),
         CHECK_RET("errp", DIAG),
         FPUTC("errp"),
         IF_ERRNO_ERRNO_LINE("errp"),
         EXIT("errp", fatal_exitcode(exitcode))>>

(* ----------------------- usage_err, usage_errp ------------------------ *)

usage_exitcode_bad_255(exitcode) == exitcode < 0 \/ exitcode >= 255

usage_exitcode_bad(exitcode) == exitcode < 0 \/ exitcode >= 256

\* exitcode after the firewall of usage_err and usage_errp
usage_exitcode(exitcode) == IF usage_exitcode_bad(exitcode) THEN FORCED_EXIT ELSE exitcode

usage_body_ge0(exitcode) == exitcode >= 0

\* exitcode > 0: the fatal error is issued
usage_body(exitcode) == exitcode > 0

\* the firewall of usage_err and usage_errp (fn): exit code, name, fmt
usage_firewall(fn, exitcode, name, fmt) ==
       (IF usage_exitcode_bad(exitcode)
        THEN warn(fn, "exitcode must be >= 0 && < 256: %d", exitcode)
             \o warn(fn, "forcing exit code: %d", FORCED_EXIT)
        ELSE <<>>)
    \o (IF name = NULL THEN warn(fn, "called with NULL name", 0) ELSE <<>>)
    \o (IF fmt = NULL THEN warn(fn, "called with NULL fmt", 0) ELSE <<>>)

usage_help(fn, prog) ==
    IF prog = NULL
    THEN <<FPRINTF(fn, "For command line usage help, try using -h\n", "", 0)>>
    ELSE <<FPRINTF(fn, "For command line usage help, try: %s -h\n", prog, 0)>>

usage_err(prog, version, exitcode, name, fmt) ==
       usage_firewall("usage_err", exitcode, name, fmt)
    \o (IF usage_body(usage_exitcode(exitcode))
        THEN <<FPRINTF("usage_err", "FATAL: %s: ", name_or_placeholder(name), 0),
               VFPRINTF("usage_err", fmt_or_placeholder(fmt), 0),
               CHECK_RET("usage_err", USAGE_DIAG),
               FPUTC("usage_err")>>
        ELSE <<>>)
    \o usage_help("usage_err", prog)
    \o <<FPRINTF("usage_err", "version: %s\n", version, 0),
         EXIT("usage_err", usage_exitcode(exitcode))>>

usage_errp(prog, version, exitcode, name, fmt) ==
       <<SAVE_ERRNO("usage_errp")>>
    \o usage_firewall("usage_errp", exitcode, name, fmt)
    \o (IF usage_body(usage_exitcode(exitcode))
        THEN <<FPRINTF("usage_errp", "FATAL: %s: ", name_or_placeholder(name), 0),
               VFPRINTF("usage_errp", fmt_or_placeholder(fmt), 0),
               CHECK_RET("usage_errp", USAGE_DIAG),
               FPUTC("usage_errp"),
               ERRNO_LINE("usage_errp")>>
        ELSE <<>>)
    \o usage_help("usage_errp", prog)
    \o <<FPRINTF("usage_errp", "%s", version, 0),
         EXIT("usage_errp", usage_exitcode(exitcode))>>

(* ----------------------------- the process ---------------------------- *)

NonFatal == {"msg", "dbg", "warn", "warnp"}
Fatal == {"err", "errp", "usage_err", "usage_errp"}

NoCall == [op |-> "none", level |-> 0, exitcode |-> 0, name |-> "-", fmt |-> "-", errno0 |-> 0]
NoEnv == [failAt |-> 0, k |-> 0, v |-> 5]

\* the statements of the call c
Code(c, verbosity, prog, version) ==
    CASE c.op = "msg" -> msg(c.fmt)
      [] c.op = "dbg" -> dbg(verbosity, c.level, c.fmt)
      [] c.op = "warn" -> warn(c.name, c.fmt, 0)
      [] c.op = "warnp" -> warnp(c.name, c.fmt)
      [] c.op = "err" -> err(c.exitcode, c.name, c.fmt)
      [] c.op = "errp" -> errp(c.exitcode, c.name, c.fmt)
      [] c.op = "usage_err" -> usage_err(prog, version, c.exitcode, c.name, c.fmt)
      [] c.op = "usage_errp" -> usage_errp(prog, version, c.exitcode, c.name, c.fmt)

\* the call c under stderr behaviour e, entered with errno e0
Run(c, e, e0, verbosity, prog, version) ==
    CHOOSE r \in {exec(Entry(e0), e, code, 1) : code \in {Code(c, verbosity, prog, version)}} : TRUE

\* e names a vfprintf and a write that the call r issued
Fits(e, r) ==
    /\ e.failAt <= r.nvf
    /\ e.k <= Len(r.out)
    /\ e.k = 0 => e.v = NoEnv.v

\* the behaviours of stderr during a call that, left alone, runs as r0:
\* any one of its vfprintf calls may fail, any one of its writes may set
\* errno (a failure adds the write of a diagnostic, a set errno may add
\* the write of an errno line)
Envs(r0) == [failAt : 0 .. r0.nvf, k : 0 .. (Len(r0.out) + 2), v : WriteErrnos]

\* the call c, whole: its writes, the errno it leaves, its return or exit
Do(c) ==
    \E r0 \in {Run(c, NoEnv, errno, debuglevel, program, version_string)} :
    \E e \in Envs(r0) :
    \E r \in {Run(c, e, errno, debuglevel, program, version_string)} :
        /\ Fits(e, r)
        /\ out' = r.out
        /\ errno' = r.errno
        /\ status' = IF r.exited THEN "exited" ELSE "returned"
        /\ exitstatus' = r.code
        /\ call' = [c EXCEPT !.errno0 = errno]
        /\ env' = e
        /\ UNCHANGED globals

Msg ==
    /\ status = "ready"
    /\ \E fmt \in Fmts : Do([NoCall EXCEPT !.op = "msg", !.fmt = fmt])

Dbg ==
    /\ status = "ready"
    /\ \E level \in Levels, fmt \in Fmts :
         Do([NoCall EXCEPT !.op = "dbg", !.level = level, !.fmt = fmt])

Warn ==
    /\ status = "ready"
    /\ \E name \in Names, fmt \in Fmts :
         Do([NoCall EXCEPT !.op = "warn", !.name = name, !.fmt = fmt])

Warnp ==
    /\ status = "ready"
    /\ \E name \in Names, fmt \in Fmts :
         Do([NoCall EXCEPT !.op = "warnp", !.name = name, !.fmt = fmt])

Err ==
    /\ status = "ready"
    /\ \E exitcode \in ExitCodes, name \in Names, fmt \in Fmts :
         Do([NoCall EXCEPT !.op = "err", !.exitcode = exitcode, !.name = name, !.fmt = fmt])

Errp ==
    /\ status = "ready"
    /\ \E exitcode \in ExitCodes, name \in Names, fmt \in Fmts :
         Do([NoCall EXCEPT !.op = "errp", !.exitcode = exitcode, !.name = name, !.fmt = fmt])

UsageErr ==
    /\ status = "ready"
    /\ \E exitcode \in ExitCodes, name \in Names, fmt \in Fmts :
         Do([NoCall EXCEPT !.op = "usage_err", !.exitcode = exitcode, !.name = name, !.fmt = fmt])

UsageErrp ==
    /\ status = "ready"
    /\ \E exitcode \in ExitCodes, name \in Names, fmt \in Fmts :
         Do([NoCall EXCEPT !.op = "usage_errp", !.exitcode = exitcode, !.name = name, !.fmt = fmt])

\* a call that returned: the caller goes on to its next statement
NextStatement ==
    /\ status = "returned"
    /\ status' = "ready"
    /\ call' = NoCall
    /\ env' = NoEnv
    /\ out' = <<>>
    /\ UNCHANGED <<globals, errno, exitstatus>>

Init ==
    /\ debuglevel \in 0 .. MaxLevel
    /\ program \in Programs
    /\ version_string \in VersionStrings
    /\ errno \in Errnos
    /\ status = "ready"
    /\ call = NoCall
    /\ env = NoEnv
    /\ out = <<>>
    /\ exitstatus = -1

Next ==
    \/ Msg
    \/ Dbg
    \/ Warn
    \/ Warnp
    \/ Err
    \/ Errp
    \/ UsageErr
    \/ UsageErrp
    \/ NextStatement

Spec == Init /\ [][Next]_vars

(* ------------------------ reading the output ------------------------- *)

Idx == 1 .. Len(out)
UsageFatal == {"usage_err", "usage_errp"}
HasName == {"warn", "warnp"} \cup Fatal
ErrnoAnnotated == {"warnp", "errp", "usage_errp"}
Exited == status = "exited"

\* the write of the message body of the call: the vfprintf the called
\* function itself issues (the warnings it emits go through warn)
BodyIdx == {i \in Idx : out[i].fn = call.op /\ out[i].via = "vfprintf"}
BodyI == CHOOSE i \in BodyIdx : TRUE
\* "Warning: <name>: " and "FATAL: <name>: " as the called function writes them
PrefixIdx == {i \in Idx : out[i].fn = call.op /\ out[i].f \in {"Warning: %s: ", "FATAL: %s: "}}
FatalIdx == {i \in Idx : out[i].f = "FATAL: %s: "}
ErrnoIdx == {i \in Idx : out[i].f = "errno[%d]: %s\n"}
IsGuidance(w) ==
    /\ w.fn = call.op
    /\ IF program = NULL
       THEN w.f = "For command line usage help, try using -h\n"
       ELSE w.f = "For command line usage help, try: %s -h\n" /\ w.s = program
IsVersion(w) == w.fn = call.op /\ w.f \in {"version: %s\n", "%s"} /\ w.s = version_string

\* the body of a warning that the called function emits through warn, with
\* one of the formats F: it follows "Warning: <called function>: "
WarningIdx(F) ==
    {i \in Idx : /\ out[i].fn = "warn" /\ out[i].via = "vfprintf" /\ out[i].f \in F
                 /\ i > 1 /\ out[i - 1].f = "Warning: %s: " /\ out[i - 1].s = call.op}
OutOfRangeFmts ==
    {"called with exitcode >= 256: %d", "called with exitcode < 0: %d",
     "exitcode must be >= 0 && < 256: %d"}
OutOfRangeIdx == WarningIdx(OutOfRangeFmts)
ForcingIdx == WarningIdx({"forcing exit code: %d"})
\* one warning names the out-of-range value, the next confirms the forced
\* value, both before the FATAL line
TwoExitCodeWarnings ==
    /\ Cardinality(OutOfRangeIdx) = 1
    /\ Cardinality(ForcingIdx) = 1
    /\ \A i \in OutOfRangeIdx, j \in ForcingIdx, n \in FatalIdx :
         /\ out[i].d = call.exitcode
         /\ out[j].d = FORCED_EXIT
         /\ i < j /\ j < n
NoExitCodeWarning == OutOfRangeIdx = {} /\ ForcingIdx = {}

\* the warnings about a missing name and a missing fmt, naming the called function
NullNameWarnIdx ==
    WarningIdx({"called with NULL name"})
    \cup {i \in Idx : out[i].f = "Warning: %s called with NULL name\n" /\ out[i].s = call.op}
NullFmtWarnIdx ==
    WarningIdx({"called with NULL fmt", "NULL fmt given to debug"})
    \cup {i \in Idx : out[i].f = "Warning: %s called with NULL fmt\n" /\ out[i].s = call.op}
NamePlaceholderIdx == {i \in PrefixIdx : out[i].s = NULL_NAME}
FmtPlaceholderIdx == {i \in BodyIdx : out[i].f = NULL_FMT}
Before(A, B) == \A i \in A, j \in B : i < j

(* ------------------------------- claims ------------------------------- *)

\* C1 as stated: dbg writes its message iff level <= debuglevel, and when
\* level > debuglevel it writes nothing at all, whatever fmt is.
C1_DbgWritesNothingAboveVerbosity ==
    call.op = "dbg" =>
        /\ (BodyIdx # {}) <=> (call.level <= debuglevel)
        /\ call.level > debuglevel => out = <<>>

\* C1 amended: dbg writes its message iff level <= debuglevel; when
\* level > debuglevel it writes nothing if fmt is given, and only the
\* warning about the NULL fmt (no message, no placeholder) if fmt is NULL.
C1_DbgGate ==
    call.op = "dbg" =>
        /\ (BodyIdx # {}) <=> (call.level <= debuglevel)
        /\ (call.level > debuglevel /\ call.fmt # NULL) => out = <<>>
        /\ (call.level > debuglevel /\ call.fmt = NULL) =>
             /\ NullFmtWarnIdx # {}
             /\ \A i \in Idx : out[i].fn = "warn" /\ out[i].f # NULL_FMT

C1_Witness ==
    /\ call.op = "dbg" /\ status = "returned"
    /\ call.level > debuglevel /\ call.fmt = NULL /\ out # <<>>

\* C2: err and errp exit with exitcode and no exit-code warning when
\* 0 <= exitcode <= 255; otherwise they write exactly two warnings (the
\* out-of-range value, then the forced value) before the FATAL line and
\* exit with 255.
C2_FatalExitCode ==
    call.op \in {"err", "errp"} =>
        /\ Exited
        /\ FatalIdx # {}
        /\ IF call.exitcode \in 0 .. 255
           THEN exitstatus = call.exitcode /\ NoExitCodeWarning
           ELSE exitstatus = 255 /\ TwoExitCodeWarnings

C2_Witness ==
    /\ call.op = "errp" /\ call.exitcode = -1 /\ Exited
    /\ TwoExitCodeWarnings

\* C3: every errno line warnp, errp and usage_errp write renders the value
\* errno had at the start of the call, whatever the call's own writes did
\* to errno.
C3_ErrnoLineShowsEntryErrno ==
    call.op \in ErrnoAnnotated =>
        \A i \in ErrnoIdx : out[i].d = call.errno0 /\ out[i].s = strerror(call.errno0)

C3_Witness ==
    /\ call.op = "warnp" /\ call.name = NULL
    /\ ErrnoIdx # {}
    /\ env.k > 0 /\ Before({env.k}, ErrnoIdx) /\ env.v # call.errno0

\* C4: errp writes the errno line iff the errno captured at entry is nonzero.
C4_ErrpErrnoLineIffCaptured ==
    call.op = "errp" => ((ErrnoIdx # {}) <=> (call.errno0 # 0))

\* C5 as stated: usage_err and usage_errp with exitcode 0 write only the
\* usage guidance line and the version string, for every name and fmt, and
\* exit with 0.
C5_UsageZeroWritesOnlyGuidance ==
    (call.op \in UsageFatal /\ call.exitcode = 0) =>
        /\ Len(out) = 2 /\ IsGuidance(out[1]) /\ IsVersion(out[2])
        /\ Exited /\ exitstatus = 0

\* C5 amended: with exitcode 0 they write no FATAL line, no message body
\* and no errno line; what they write themselves is the guidance line and
\* the version string; before these come the warnings about a NULL name or
\* fmt, and nothing else; they exit with 0.
C5_UsageZero ==
    (call.op \in UsageFatal /\ call.exitcode = 0) =>
        /\ FatalIdx = {} /\ BodyIdx = {} /\ ErrnoIdx = {}
        /\ Len(out) >= 2
        /\ IsGuidance(out[Len(out) - 1]) /\ IsVersion(out[Len(out)])
        /\ \A i \in 1 .. (Len(out) - 2) : out[i].fn = "warn"
        /\ (Len(out) > 2) <=> (call.name = NULL \/ call.fmt = NULL)
        /\ NoExitCodeWarning
        /\ Exited /\ exitstatus = 0

C5_Witness ==
    /\ call.op = "usage_errp" /\ call.exitcode = 0 /\ Exited
    /\ call.name = NULL /\ call.fmt = NULL /\ errno # 0
    /\ NullNameWarnIdx # {} /\ NullFmtWarnIdx # {}

\* what a usage-fatal call writes and exits with for an exit code it accepts
UsageAccepted ==
    /\ FatalIdx # {} /\ BodyIdx # {}
    /\ IsGuidance(out[Len(out) - 1]) /\ IsVersion(out[Len(out)])
    /\ NoExitCodeWarning
    /\ Exited /\ exitstatus = call.exitcode
UsageRejected == TwoExitCodeWarnings /\ Exited /\ exitstatus = 255

\* C6 as stated: the valid range of usage_err and usage_errp is [0, 255):
\* 1..254 is accepted, everything outside 0..254 is rejected with two
\* warnings and exit code 255.
C6_UsageRangeTo254 ==
    call.op \in UsageFatal =>
        /\ call.exitcode \in 1 .. 254 => UsageAccepted
        /\ call.exitcode \notin 0 .. 254 => UsageRejected

\* C6 amended: the valid range is [0, 256): 1..255 is accepted (FATAL
\* message, guidance, version, exit with that code, no exit-code warning),
\* everything outside 0..255 is rejected with two warnings and exit code 255.
C6_UsageRangeTo255 ==
    call.op \in UsageFatal =>
        /\ call.exitcode \in 1 .. 255 => UsageAccepted
        /\ call.exitcode \notin 0 .. 255 => UsageRejected

C6_Witness ==
    /\ call.op = "usage_err" /\ call.exitcode = 255
    /\ Exited /\ exitstatus = 255 /\ NoExitCodeWarning /\ FatalIdx # {}

\* C7: msg, dbg, warn and warnp always return; err, errp, usage_err and
\* usage_errp always terminate the process, after their message or
\* guidance has been written, and nothing happens after termination.
C7_ReturnOrTerminate ==
    /\ call.op \in NonFatal => (status = "returned" /\ exitstatus = -1)
    /\ call.op \in Fatal =>
         /\ Exited /\ exitstatus \in 0 .. 255
         /\ call.op \in {"err", "errp"} =>
              (FatalIdx # {} /\ \E i \in Idx : out[i].fn = call.op /\ out[i].via = "fputc")
         /\ call.op \in UsageFatal =>
              (Len(out) >= 2 /\ IsGuidance(out[Len(out) - 1]) /\ IsVersion(out[Len(out)]))
    /\ Exited => (call.op \in Fatal /\ ~ ENABLED Next)

C7_Witness ==
    /\ call.op = "usage_errp" /\ Exited
    /\ call.exitcode = 1000 /\ call.name = NULL /\ call.fmt = NULL
    /\ BodyIdx # {} /\ out[BodyI].ret < 0

\* the call without the misuse, on a stream that behaves
WellFormed ==
    Run([call EXCEPT !.name = IF @ = NULL THEN "parse" ELSE @,
                     !.fmt = IF @ = NULL THEN "unexpected token" ELSE @],
        NoEnv, call.errno0, debuglevel, program, version_string)
SameOutcomeAsWellFormed ==
    /\ WellFormed.exited = Exited
    /\ WellFormed.code = exitstatus
MissingName == call.op \in HasName /\ call.name = NULL
MissingFmt == call.op \in (NonFatal \cup Fatal) /\ call.fmt = NULL
\* the calls that write no message line
NoMessageLine ==
    \/ call.op = "dbg" /\ call.level > debuglevel
    \/ call.op \in UsageFatal /\ call.exitcode = 0

\* C8 as stated: in every call with a missing name or fmt the output holds
\* the placeholder, a warning naming the function comes before it, and the
\* return or termination and the exit code are those of the call without
\* the misuse; also for dbg above the verbosity and usage-fatal with code 0.
C8_PlaceholderAlways ==
    /\ MissingName => (NullNameWarnIdx # {} /\ NamePlaceholderIdx # {}
                       /\ Before(NullNameWarnIdx, NamePlaceholderIdx))
    /\ MissingFmt => (NullFmtWarnIdx # {} /\ FmtPlaceholderIdx # {}
                      /\ Before(NullFmtWarnIdx, FmtPlaceholderIdx))
    /\ (MissingName \/ MissingFmt) => SameOutcomeAsWellFormed

\* C8 amended: the warning naming the function is always written; the
\* placeholder is written, after the warning, in every call that writes a
\* message line, and not at all by dbg above the verbosity and by
\* usage-fatal calls with exit code 0; the outcome is that of the call
\* without the misuse.
C8_PlaceholderWhenMessage ==
    /\ MissingName =>
         /\ NullNameWarnIdx # {}
         /\ (NamePlaceholderIdx # {}) <=> ~ NoMessageLine
         /\ Before(NullNameWarnIdx, NamePlaceholderIdx)
    /\ MissingFmt =>
         /\ NullFmtWarnIdx # {}
         /\ (FmtPlaceholderIdx # {}) <=> ~ NoMessageLine
         /\ Before(NullFmtWarnIdx, FmtPlaceholderIdx)
    /\ (MissingName \/ MissingFmt) => SameOutcomeAsWellFormed

C8_Witness ==
    /\ call.op = "msg" /\ call.fmt = NULL /\ status = "returned"
    /\ NullFmtWarnIdx # {} /\ FmtPlaceholderIdx # {}

\* the call with its message body written successfully, stderr behaving
\* on every other write as it did in the call
BodyFailed == BodyIdx # {} /\ out[BodyI].ret <= 0
BodyWritten ==
    Run([call EXCEPT !.fmt = IF @ = "" THEN "unexpected token" ELSE @],
        [failAt |-> IF out[BodyI].ret < 0 THEN 0 ELSE env.failAt,
         k |-> IF env.k < BodyI THEN env.k
               ELSE IF env.k <= BodyI + 1 THEN 0 ELSE env.k - 1,
         v |-> env.v],
        call.errno0, debuglevel, program, version_string)

\* C9: when the formatted write of the message body returns zero or less, a
\* diagnostic naming the operation and the returned value follows, then the
\* newline, and from there on the call writes, returns or exits as it does
\* when the write succeeds.
C9_FailedWriteContinues ==
    BodyFailed =>
        /\ Len(out) >= BodyI + 2
        /\ out[BodyI + 1].f \in {DIAG, USAGE_DIAG}
        /\ out[BodyI + 1].s = call.op /\ out[BodyI + 1].d = out[BodyI].ret
        /\ out[BodyI + 2].via = "fputc"
        /\ SubSeq(out, BodyI + 2, Len(out))
             = SubSeq(BodyWritten.out, BodyI + 1, Len(BodyWritten.out))
        /\ BodyWritten.exited = Exited
        /\ BodyWritten.code = exitstatus

\* the same call made to usage_err, and the output with the function's own
\* name taken out
AsUsageErr ==
    Run([call EXCEPT !.op = "usage_err"], env, call.errno0, debuglevel, program, version_string)
Unnamed(w) ==
    [w EXCEPT !.fn = IF @ \in UsageFatal THEN "usage" ELSE @,
              !.s = IF @ \in UsageFatal THEN "usage" ELSE @]
Unnamedseq(ws) == [i \in 1 .. Len(ws) |-> Unnamed(ws[i])]
NotErrnoLine(w) == w.f # "errno[%d]: %s\n"

\* C10: usage_errp writes what usage_err writes, plus one errno line
\* directly after the message body when the code is nonzero, and exits with
\* the same code.
C10_UsageErrpIsUsageErrPlusErrno ==
    call.op = "usage_errp" =>
        /\ Unnamedseq(SelectSeq(out, NotErrnoLine)) = Unnamedseq(AsUsageErr.out)
        /\ Cardinality(ErrnoIdx) = IF exitstatus # 0 THEN 1 ELSE 0
        /\ \A i \in ErrnoIdx : i > 1 /\ out[i - 1].fn = call.op /\ out[i - 1].via = "fputc"
        /\ AsUsageErr.code = exitstatus

====
